---- MODULE Spec2Model ----
(***************************************************************************)
(* Model of the NBA game monitor poll loop (src/main.py), the game        *)
(* monitor detectors (src/src/game_monitor.py) and the day-scoped state   *)
(* store (src/src/state.py).  get_todays_games builds each kept game with *)
(* Game.from_schedule_api(g, game_date=...), which takes no game_date:    *)
(* every poll that lists a game raises TypeError at main.py:58, so a poll *)
(* cycle of the program is one step.  The StateManager class is also      *)
(* modelled on its own, its methods called in any order.                  *)
(***************************************************************************)
EXTENDS Integers, Sequences, FiniteSets, TLC

\* ---------------------------------------------------------------- bounds
MaxPolls == 3
MaxDay == 1
MaxPollsLoad == 2
MaxLoopCycles == 2

\* ------------------------------------------------------- program constants
CLOSE_GAME_ALERT_COOLDOWN_POLLS == 4
CLOSE_GAME_THRESHOLD == 5
CLOSE_GAME_QUARTER == 4
HIGH_SCORE_THRESHOLD == 40
TRIPLE_DOUBLE_THRESHOLD == 10
TRIPLE_DOUBLE_WATCH_MIN == 7

\* ------------------------------------------------------------ helpers
Contains(s, sub) ==
    \E i \in 0..(Len(s) - Len(sub)) : SubSeq(s, i + 1, i + Len(sub)) = sub

AbsNoNeg(n) == n
Abs(n) == IF n < 0 THEN -n ELSE n

\* str.strip() with no argument removes every character for which
\* str.isspace() holds.  The ones without an escape are written literally:
\* U+000B, U+001C..U+001F, U+0085, U+00A0 and U+1680.  U+2000..U+200A,
\* U+2028, U+2029, U+202F, U+205F and U+3000 cannot appear in a TLA+ string.
Whitespace == {" ", "\t", "\n", "\r", "\f", "", "", "", "", "",
               "", " ", " "}
RECURSIVE LStrip(_)
LStrip(s) == IF Len(s) > 0 /\ SubSeq(s, 1, 1) \in Whitespace THEN LStrip(SubSeq(s, 2, Len(s))) ELSE s
RECURSIVE RStrip(_)
RStrip(s) == IF Len(s) > 0 /\ SubSeq(s, Len(s), Len(s)) \in Whitespace
             THEN RStrip(SubSeq(s, 1, Len(s) - 1)) ELSE s
Strip(s) == RStrip(LStrip(s))

\* Game snapshot after (optional) boxscore enrichment: schedule fields,
\* scores and the one tracked player's stats (steals = blocks = 0).
Snap(st, txt, per, clk, h, a, pts, reb, ast) ==
    [status |-> st, status_text |-> txt, period |-> per, clock |-> clk,
     home |-> h, away |-> a, pts |-> pts, reb |-> reb, ast |-> ast,
     stl |-> 0, blk |-> 0]

\* Per-game sequence of upstream snapshots; the service may start at any point
\* of it, and each poll observes the game at the same or the next point.
TimelineA ==
    << Snap(1, "7:00 pm ET", 0, "", 0, 0, 0, 0, 0),
       Snap(2, "End of Q1", 1, "0:00", 30, 25, 10, 5, 8),
       Snap(2, "Halftime", 2, "0:00", 55, 50, 20, 11, 8),
       Snap(2, "End of Q3", 3, "0:00", 80, 78, 30, 11, 11),
       Snap(2, "Q4 2:00", 4, "2:00", 100, 98, 40, 12, 11),
       Snap(2, "End of Q4", 4, "0:00", 100, 100, 42, 12, 11),
       Snap(3, "Final/OT", 5, "", 110, 105, 47, 12, 12) >>
TimelineB ==
    << Snap(1, "7:30 pm ET", 0, "", 0, 0, 0, 0, 0),
       Snap(2, "Q2 0:00", 2, "", 50, 60, 12, 10, 7),
       Snap(2, "Q4 1:00", 4, "1:00", 99, 101, 41, 10, 9),
       Snap(2, "Final", 4, "", 99, 101, 41, 10, 9),
       Snap(3, "Final", 4, "", 99, 101, 41, 10, 9) >>
\* A close fourth quarter without individual milestones.
TimelineQ4 ==
    << Snap(2, "Q4 3:00", 4, "3:00", 96, 93, 22, 6, 4),
       Snap(2, "Q4 1:00", 4, "1:00", 99, 101, 24, 6, 5),
       Snap(2, "End of Q4", 4, "0:00", 101, 101, 24, 7, 5),
       Snap(3, "Final/OT", 5, "", 110, 108, 28, 8, 5) >>
Timelines == {TimelineA, TimelineB}
GameOrder == <<"A">>
Games == {"A"}

\* --------------------------------------------------- GameMonitor detectors
\* detect_quarter_end: period number that just ended, or None (-1).
None == -1
DetectQuarterEndNoMax(o) ==
    IF Contains(o.status_text, "Halftime") \/ Contains(o.status_text, "Half") THEN 2
    ELSE IF Contains(o.status_text, "End of Q1") THEN 1
    ELSE IF Contains(o.status_text, "End of Q3") THEN 3
    ELSE IF Contains(o.status_text, "End of OT") THEN o.period
    ELSE IF o.status = 3 THEN o.period
    ELSE None
DetectQuarterEnd(o) ==
    IF Contains(o.status_text, "Halftime") \/ Contains(o.status_text, "Half") THEN 2
    ELSE IF Contains(o.status_text, "End of Q1") THEN 1
    ELSE IF Contains(o.status_text, "End of Q3") THEN 3
    ELSE IF Contains(o.status_text, "End of OT") THEN o.period
    ELSE IF o.status = 3 THEN (IF o.period >= 4 THEN o.period ELSE 4)
    ELSE None

IsHalftimeNoStrip(o) ==
    \/ o.period = 2 /\ o.clock \in {"", "0:00", "0:0"}
    \/ Contains(o.status_text, "Halftime") \/ Contains(o.status_text, "Half")
IsHalftime(o) ==
    \/ o.period = 2 /\ Strip(o.clock) \in {"", "0:00", "0:0"}
    \/ Contains(o.status_text, "Halftime") \/ Contains(o.status_text, "Half")

IsTiedNever(o) == FALSE
IsTied(o) == o.home = o.away

IsFinal(o) ==
    IF o.status = 3 THEN TRUE
    ELSE IF Contains(o.status_text, "Final") THEN TRUE
    ELSE IF Contains(o.status_text, "End of Q4") THEN ~IsTied(o)
    ELSE FALSE

NoSignal == [kind |-> "none"]
CloseGameSignal(o) ==
    IF o.status # 2 THEN NoSignal
    ELSE IF o.period < CLOSE_GAME_QUARTER THEN NoSignal
    ELSE IF Abs(o.home - o.away) <= CLOSE_GAME_THRESHOLD
         THEN [kind |-> "close", point_diff |-> Abs(o.home - o.away),
               period |-> o.period, clock |-> o.clock]
    ELSE NoSignal

\* detect_performance_alerts: stat categories of a player.
TripleDoubleCats(o) ==
    (IF o.pts >= TRIPLE_DOUBLE_THRESHOLD THEN 1 ELSE 0)
  + (IF o.reb >= TRIPLE_DOUBLE_THRESHOLD THEN 1 ELSE 0)
  + (IF o.ast >= TRIPLE_DOUBLE_THRESHOLD THEN 1 ELSE 0)
  + (IF o.stl >= TRIPLE_DOUBLE_THRESHOLD THEN 1 ELSE 0)
  + (IF o.blk >= TRIPLE_DOUBLE_THRESHOLD THEN 1 ELSE 0)
NearAny(v) == v < TRIPLE_DOUBLE_THRESHOLD
Near(v) == TRIPLE_DOUBLE_WATCH_MIN <= v /\ v < TRIPLE_DOUBLE_THRESHOLD
CloseCats(o) ==
    (IF Near(o.pts) THEN 1 ELSE 0) + (IF Near(o.reb) THEN 1 ELSE 0)
  + (IF Near(o.ast) THEN 1 ELSE 0) + (IF Near(o.stl) THEN 1 ELSE 0)
  + (IF Near(o.blk) THEN 1 ELSE 0)
\* detect_performance_alerts over the players of both teams (one player per
\* team): the list of (player name, alert_type) in the order the code appends.
PlayerAlertsAnyPlayer(p) ==
    (IF TripleDoubleCats(p) >= 3 THEN <<<<p.name, "triple_double">>>>
     ELSE IF TripleDoubleCats(p) = 2 /\ CloseCats(p) >= 1
          THEN <<<<p.name, "triple_double_watch">>>> ELSE <<>>)
    \o (IF p.pts >= HIGH_SCORE_THRESHOLD THEN <<<<p.name, "high_scorer">>>> ELSE <<>>)
PlayerAlerts(p) ==
    IF ~p.played THEN <<>>
    ELSE (IF TripleDoubleCats(p) >= 3 THEN <<<<p.name, "triple_double">>>>
          ELSE IF TripleDoubleCats(p) = 2 /\ CloseCats(p) >= 1
               THEN <<<<p.name, "triple_double_watch">>>> ELSE <<>>)
         \o (IF p.pts >= HIGH_SCORE_THRESHOLD THEN <<<<p.name, "high_scorer">>>> ELSE <<>>)
DetectPerformanceAlertList(o) == PlayerAlerts(o.players[1]) \o PlayerAlerts(o.players[2])

\* ------------------------------------------------------------- state store
NoThread == 0
DefaultGameState ==
    [thread_ts |-> NoThread, posted_quarters |-> {}, game_started_posted |-> FALSE,
     halftime_posted |-> FALSE, final_posted |-> FALSE,
     close_game_alerts |-> 0, performance_alerts |-> {}]
FreshGames == [g \in Games |-> DefaultGameState]

\* DailyState.to_dict: asdict of each GameState, keyed by field name.
GameKeys ==
    {"game_id", "thread_ts", "posted_quarters", "game_started_posted", "halftime_posted",
     "final_posted", "close_game_alerts", "performance_alerts"}
AsDictNoThread(g, gs) == [k \in GameKeys \ {"thread_ts"} |->
    CASE k = "game_id" -> g
      [] k = "posted_quarters" -> gs.posted_quarters
      [] k = "game_started_posted" -> gs.game_started_posted
      [] k = "halftime_posted" -> gs.halftime_posted
      [] k = "final_posted" -> gs.final_posted
      [] k = "close_game_alerts" -> gs.close_game_alerts
      [] k = "performance_alerts" -> gs.performance_alerts]
AsDict(g, gs) == [k \in GameKeys |->
    CASE k = "game_id" -> g
      [] k = "thread_ts" -> gs.thread_ts
      [] k = "posted_quarters" -> gs.posted_quarters
      [] k = "game_started_posted" -> gs.game_started_posted
      [] k = "halftime_posted" -> gs.halftime_posted
      [] k = "final_posted" -> gs.final_posted
      [] k = "close_game_alerts" -> gs.close_game_alerts
      [] k = "performance_alerts" -> gs.performance_alerts]
ToDictGames(m) == [g \in Games |-> AsDict(g, m[g])]

\* DailyState.from_dict: each field by game_data.get(key, default).
DictGet(d, k, dflt) == IF k \in DOMAIN d THEN d[k] ELSE dflt
FromGameDict(d) ==
    [thread_ts |-> DictGet(d, "thread_ts", NoThread),
     posted_quarters |-> DictGet(d, "posted_quarters", {}),
     game_started_posted |-> DictGet(d, "game_started_posted", FALSE),
     halftime_posted |-> DictGet(d, "halftime_posted", FALSE),
     final_posted |-> DictGet(d, "final_posted", FALSE),
     close_game_alerts |-> DictGet(d, "close_game_alerts", 0),
     performance_alerts |-> DictGet(d, "performance_alerts", {})]
FromDictGames(dg) == [g \in Games |-> FromGameDict(dg[g])]
NoFile == -1

\* Content of the state file as _load reads it: a JSON object written by _save,
\* or one of the damaged forms a file can have.
FileForms ==
    {"object", "invalid_json", "not_object", "undecodable", "unreadable", "no_date",
     "games_not_object", "game_not_object", "game_missing_id", "field_null"}
\* A today-dated object whose game record holds null posted_quarters: from_dict
\* copies the value unchecked.
NullField == "null"
FieldNullGames == [g \in Games |-> [AsDict(g, DefaultGameState) EXCEPT !["posted_quarters"] = NullField]]
NoStateFile == [date |-> NoFile, form |-> "object", games |-> ToDictGames(FreshGames), eon |-> FALSE]

\* A game object obtained from get_game was changed by its caller before
\* save_game: _handle_game_start on a successful post (game_started_posted,
\* thread_ts) or _post_final (final_posted, the final period).
Mutations == {"start", "final"}
Mutated(gs, m) ==
    IF m = "start" THEN [gs EXCEPT !.game_started_posted = TRUE, !.thread_ts = 1]
    ELSE [gs EXCEPT !.final_posted = TRUE, !.posted_quarters = @ \cup {4}]

\* A record of the flagged games of an earlier run: started, with a thread.
FlaggedGames == [g \in Games |-> Mutated(DefaultGameState, "start")]

VARIABLES
    day,        \* current calendar date (0 = game day, 1 = the day after)
    polls,      \* poll cycles started
    pc,         \* the service: "idle" between cycles, "crashed" when __init__ raised
    tl,         \* upstream timeline of each game
    ix,         \* upstream timeline position of each game
    pollLimit,  \* number of poll cycles explored
    sched,      \* games get_todays_games keeps in the current/last cycle (today's, and
                \* yesterday's still in progress)
    cyc,        \* notifications posted in the current/last cycle
    cycDay,     \* date of the current/last cycle
    restartFlag,\* a restart happened since the current/last cycle began
    mem,        \* StateManager._state.games
    eon,        \* StateManager._state.end_of_night_posted
    stDate,     \* StateManager._state.date
    disk,       \* the state file
    writeOk,    \* not StateManager._dirty
    wfOK,       \* writes of the state file may fail (IOError)
    held,       \* the GameState object a caller holds per game (from get_game)
    alias,      \* the held object is the one stored in _state.games
    lastSave,   \* last save_game of each game: record, store date, wall date, same
                \* process, lost by a restart or reset(), reset() since, object held
    readEon,    \* last is_end_of_night_posted: value, store date, wall date
    snap,       \* detector input (GameMonitor specification)
    res,        \* detector results for snap
    loopPc,     \* main thread position in run_continuous / check_games / Event.wait
    stopEv,     \* stop_event flag
    raised,     \* where an exception escaped check_games in the current cycle
    hasActive,  \* has_active_games
    waitIv,     \* interval passed to stop_event.wait
    loopCycles, \* check_games cycles started
    schedInProg \* in-progress games on the schedule of the current cycle

SvcVars == <<day, polls, pc, tl, ix, pollLimit, sched, cyc, cycDay, restartFlag>>
StoreVars == <<mem, eon, stDate, disk, writeOk, wfOK>>
ApiVars == <<held, alias, lastSave, readEon>>
DetectorVars == <<snap, res>>
LoopVars == <<loopPc, stopEv, raised, hasActive, waitIv, loopCycles, schedInProg>>
vars == <<SvcVars, StoreVars, ApiVars, DetectorVars, LoopVars>>

\* No game object held by a caller.
NoHeld == [g \in Games |-> [has |-> FALSE, gs |-> DefaultGameState]]
\* No save_game of the game yet.
NoSave == [set |-> FALSE, gs |-> DefaultGameState, date |-> None, wall |-> None, proc |-> FALSE,
           lost |-> FALSE, reset |-> FALSE, obj |-> FALSE]
\* No is_end_of_night_posted call yet.
NoRead == [val |-> FALSE, date |-> None, wall |-> None]
\* No detector input (service specifications).
NoSnap == [kind |-> "none"]
NoResult == [kind |-> "none"]

\* StateManager._load: outcome for a state file f.  open/read errors (OSError,
\* UnicodeDecodeError) and AttributeError/TypeError from data.get / .items() /
\* game_data["game_id"] on non-objects escape; JSONDecodeError and KeyError are
\* caught and give a fresh state; a file of another date gives a fresh state.
LoadOutcome(f) ==
    IF f.date = NoFile THEN "fresh"
    ELSE IF f.form \in {"unreadable", "undecodable"} THEN "crash"
    ELSE IF f.form = "invalid_json" THEN "fresh"
    ELSE IF f.form = "not_object" THEN "crash"
    ELSE IF f.form = "no_date" \/ f.date # day THEN "fresh"
    ELSE IF f.form \in {"games_not_object", "game_not_object"} THEN "crash"
    ELSE IF f.form = "game_missing_id" THEN "fresh"
    ELSE "load"

\* QuarterUpdateService.__init__ with the given state file: StateManager._load
\* gives a fresh or a loaded store, or raises out of the constructor.
InitServiceWith(file) ==
    /\ day = 0
    /\ polls = 0
    /\ pc = IF LoadOutcome(file) = "crash" THEN "crashed" ELSE "idle"
    /\ sched = <<>>
    /\ cyc = {}
    /\ cycDay = None
    /\ restartFlag = FALSE
    /\ mem = IF LoadOutcome(file) = "load" THEN FromDictGames(file.games) ELSE FreshGames
    /\ eon = IF LoadOutcome(file) = "load" THEN file.eon ELSE FALSE
    /\ stDate = 0
    /\ disk = file
    /\ writeOk = TRUE
    /\ held = NoHeld
    /\ alias = [g \in Games |-> FALSE]
    /\ lastSave = [g \in Games |-> NoSave]
    /\ readEon = NoRead

\* Games of the run_continuous / check_games cycle specification (list order).
CycleGames == <<"A", "B">>
CycleGameSet == {CycleGames[i] : i \in 1..Len(CycleGames)}

\* Main thread before run_continuous (pc0 = "off") or at the top of its loop.
LoopVarsInit(pc0) ==
    /\ loopPc = pc0
    /\ stopEv = FALSE
    /\ raised = "no"
    /\ hasActive = FALSE
    /\ waitIv = "none"
    /\ loopCycles = 0
    /\ schedInProg = {}

\* QuarterUpdateService.__init__ with no state file yet.
InitService == InitServiceWith(NoStateFile) /\ snap = NoSnap /\ res = NoResult /\ LoopVarsInit("off")

Init ==
    /\ InitService
    /\ tl \in [Games -> Timelines]
    /\ ix \in [Games -> 1..Len(TimelineA)]
    /\ \A g \in Games : ix[g] <= Len(tl[g])
    /\ pollLimit = MaxPolls
    /\ wfOK = FALSE

\* --------------------------------------------------------------- helpers
Obs(g) == tl[g][ix[g]]

\* What StateManager.get_game returns for each game: a state of another date
\* is replaced by a fresh one.
Cur == IF stDate = day THEN mem ELSE FreshGames

\* NBAApiClient.get_todays_games: all games of today; games of yesterday only
\* while still in progress.  All modelled games are scheduled on day 0.
Included(g, nx) ==
    \/ day = 0
    \/ day = 1 /\ tl[g][nx[g]].status = 2

\* StateManager._save: the whole daily state (DailyState.to_dict) is written
\* to the file.
SaveOf(m, e) == [date |-> stDate, form |-> "object", games |-> ToDictGames(m), eon |-> e]

\* StateManager._save: an IOError is logged and swallowed; the file keeps its
\* old content (open failed) or is left truncated (the write failed), and the
\* store stays dirty in memory.
\* Each outcome is the file content and whether the store is clean afterwards.
WriteOutcomes(new, old) ==
    {<<new, TRUE>>} \cup
    (IF wfOK THEN {<<old, FALSE>>, <<[new EXCEPT !.form = "invalid_json"], FALSE>>} ELSE {})

\* _dirty = True, then _save().
Write(new) == \E r \in WriteOutcomes(new, disk) : disk' = r[1] /\ writeOk' = r[2]

\* ------------------------------------------------------------------ actions
\* The schedule positions a poll may observe: each game at the same or the
\* next point of its timeline.
NextPositions ==
    {f \in [Games -> 1..Len(TimelineA)] :
       \A g \in Games : f[g] \in {ix[g], ix[g] + 1} /\ f[g] <= Len(tl[g])}

\* check_games as written: get_todays_games filters the rolling schedule and
\* calls Game.from_schedule_api(g, game_date=...) for every game it keeps;
\* from_schedule_api takes no game_date argument, so that call raises
\* TypeError, which leaves check_games at its first line (run_continuous
\* catches it).  With nothing to keep (no response, or only finished games of
\* yesterday) the list is empty and check_games returns False.
Fetch ==
    /\ pc = "idle"
    /\ polls < pollLimit
    /\ \E nx \in NextPositions, apiOk \in BOOLEAN :
          /\ ix' = nx
          /\ sched' = IF apiOk THEN SelectSeq(GameOrder, LAMBDA g : Included(g, nx)) ELSE <<>>
    /\ polls' = polls + 1
    /\ cyc' = {}
    /\ cycDay' = day
    /\ restartFlag' = FALSE
    /\ UNCHANGED <<day, pc, tl, pollLimit, StoreVars, ApiVars, DetectorVars, LoopVars>>

\* StateManager._load: the file is used only if it is of today's date.
LoadedGames == IF LoadOutcome(disk) = "load" THEN FromDictGames(disk.games) ELSE FreshGames
LoadedEonAnyDate == disk.eon
LoadedEon == IF LoadOutcome(disk) = "load" THEN disk.eon ELSE FALSE

\* Process restart: a new QuarterUpdateService and StateManager (_dirty =
\* False, _load); an exception escaping _load ends the process.  The objects
\* of the previous process are gone.
Restart ==
    /\ pc = "idle"
    /\ pc' = IF LoadOutcome(disk) = "crash" THEN "crashed" ELSE "idle"
    /\ mem' = LoadedGames
    /\ eon' = LoadedEon
    /\ stDate' = day
    /\ writeOk' = TRUE
    /\ restartFlag' = TRUE
    /\ held' = NoHeld
    /\ alias' = [g \in Games |-> FALSE]
    /\ lastSave' = [g \in Games |-> [lastSave[g] EXCEPT !.proc = FALSE, !.obj = FALSE,
                                       !.lost = @ \/ (lastSave[g].set /\ ~writeOk)]]
    /\ readEon' = NoRead
    /\ UNCHANGED <<day, polls, tl, ix, pollLimit, sched, cyc, cycDay, disk, wfOK,
                   DetectorVars, LoopVars>>

\* The wall-clock date advances (datetime.now(), read by _get_today).
Rollover ==
    /\ pc # "crashed"
    /\ day < MaxDay
    /\ day' = day + 1
    /\ UNCHANGED <<polls, pc, tl, ix, pollLimit, sched, cyc, cycDay, restartFlag,
                   StoreVars, ApiVars, DetectorVars, LoopVars>>

\* The program as written: every poll that lists a game raises in
\* get_todays_games, so no game is ever processed.
NextAsIs ==
    \/ Fetch
    \/ Restart
    \/ Rollover

SpecAsIs == Init /\ [][NextAsIs]_vars

\* The program as written started over a state file of any form: a game record
\* fresh or flagged, the end-of-night flag set or not.
InitLoad ==
    /\ \E form \in FileForms, gm \in {FreshGames, FlaggedGames}, e \in BOOLEAN :
          InitServiceWith([date |-> 0, form |-> form, eon |-> e,
                           games |-> IF form = "field_null" THEN FieldNullGames
                                     ELSE ToDictGames(gm)])
    /\ snap = NoSnap
    /\ res = NoResult
    /\ LoopVarsInit("off")
    /\ tl = [g \in Games |-> TimelineQ4]
    /\ ix \in [Games -> 1..Len(TimelineQ4)]
    /\ pollLimit = MaxPollsLoad
    /\ wfOK = FALSE

SpecLoad == InitLoad /\ [][NextAsIs]_vars

\* ------------------------------------------------ StateManager specification
\* The methods of one StateManager called in any order by its callers, the
\* date advancing and the process restarting in between; writes of the state
\* file may fail.

\* get_game: `self._state.date != today`.
StoreStaleNever(d) == FALSE
StoreStale(d) == stDate # d

\* StateManager.get_game(g): a store of another date is replaced by an empty
\* DailyState of today; DailyState.get_game creates the record if absent and
\* returns the stored object.  The caller keeps the object (keep) or only
\* reads it.
GetGame(g) ==
    /\ pc = "idle"
    /\ LET stale == StoreStale(day)
           m0 == IF stale THEN FreshGames ELSE mem
       IN /\ mem' = m0
          /\ eon' = IF stale THEN FALSE ELSE eon
          /\ stDate' = IF stale THEN day ELSE stDate
          /\ \E keep \in BOOLEAN :
               /\ held' = IF keep THEN [held EXCEPT ![g] = [has |-> TRUE, gs |-> m0[g]]] ELSE held
               /\ alias' = [h \in Games |-> IF keep /\ h = g THEN TRUE
                                           ELSE IF stale THEN FALSE ELSE alias[h]]
               /\ lastSave' = IF keep /\ (stale \/ ~alias[g])
                              THEN [lastSave EXCEPT ![g].obj = FALSE] ELSE lastSave
    /\ UNCHANGED <<SvcVars, disk, writeOk, wfOK, readEon, DetectorVars, LoopVars>>

\* The caller changes the object it holds (main.py:128-129, 205-206); the
\* stored record changes with it when it is the stored object.  A record
\* saved earlier and then changed is no longer the saved one.
MutateHeld(g) ==
    /\ pc = "idle"
    /\ held[g].has
    /\ \E m \in Mutations :
          /\ Mutated(held[g].gs, m) # held[g].gs
          /\ held' = [held EXCEPT ![g].gs = Mutated(held[g].gs, m)]
          /\ mem' = IF alias[g] THEN [mem EXCEPT ![g] = Mutated(held[g].gs, m)] ELSE mem
    /\ lastSave' = IF alias[g] \/ lastSave[g].obj THEN [lastSave EXCEPT ![g] = NoSave] ELSE lastSave
    /\ UNCHANGED <<SvcVars, eon, stDate, disk, writeOk, wfOK, alias, readEon, DetectorVars, LoopVars>>

\* StateManager.save_game(gs): `self._state.games[gs.game_id] = gs` into the
\* store in use (no date check), _dirty = True, _save().
SaveGame(g) ==
    /\ pc = "idle"
    /\ held[g].has
    /\ mem' = [mem EXCEPT ![g] = held[g].gs]
    /\ alias' = [alias EXCEPT ![g] = TRUE]
    /\ Write(SaveOf(mem', eon))
    /\ lastSave' = [lastSave EXCEPT ![g] = [set |-> TRUE, gs |-> held[g].gs, date |-> stDate,
                                            wall |-> day, proc |-> TRUE, lost |-> FALSE,
                                            reset |-> FALSE, obj |-> TRUE]]
    /\ UNCHANGED <<SvcVars, eon, stDate, wfOK, held, readEon, DetectorVars, LoopVars>>

\* StateManager.is_end_of_night_posted: the flag of the store in use.
IsEndOfNightPosted ==
    /\ pc = "idle"
    /\ readEon' = [val |-> eon, date |-> stDate, wall |-> day]
    /\ UNCHANGED <<SvcVars, StoreVars, held, alias, lastSave, DetectorVars, LoopVars>>

\* StateManager.mark_end_of_night_posted: flag set in the store in use,
\* _dirty = True, _save().
MarkEndOfNightPosted ==
    /\ pc = "idle"
    /\ eon' = TRUE
    /\ Write(SaveOf(mem, TRUE))
    /\ UNCHANGED <<SvcVars, mem, stDate, wfOK, ApiVars, DetectorVars, LoopVars>>

\* StateManager.flush: _save writes the store in use if it is dirty.
Flush ==
    /\ pc = "idle"
    /\ ~writeOk
    /\ Write(SaveOf(mem, eon))
    /\ UNCHANGED <<SvcVars, mem, eon, stDate, wfOK, ApiVars, DetectorVars, LoopVars>>

\* StateManager.reset: a fresh DailyState of today, then os.remove of an
\* existing file; _dirty is left as it is.  Where file operations may fail
\* (wfOK) the removal may raise (OSError, not caught) after the store was
\* replaced, leaving the old file on disk.
ResetDiskOutcomes ==
    IF disk = NoStateFile THEN {NoStateFile}
    ELSE {NoStateFile} \cup (IF wfOK THEN {disk} ELSE {})
Reset ==
    /\ pc = "idle"
    /\ mem' = FreshGames
    /\ eon' = FALSE
    /\ stDate' = day
    /\ disk' \in ResetDiskOutcomes
    /\ alias' = [g \in Games |-> FALSE]
    /\ lastSave' = [g \in Games |-> [lastSave[g] EXCEPT !.lost = @ \/ lastSave[g].set,
                                                         !.reset = @ \/ lastSave[g].set]]
    /\ UNCHANGED <<SvcVars, writeOk, wfOK, held, readEon, DetectorVars, LoopVars>>

StoreNext ==
    \/ \E g \in Games : GetGame(g) \/ MutateHeld(g) \/ SaveGame(g)
    \/ IsEndOfNightPosted
    \/ MarkEndOfNightPosted
    \/ Flush
    \/ Reset
    \/ Restart
    \/ Rollover

InitStore ==
    /\ InitService
    /\ tl = [g \in Games |-> TimelineA]
    /\ ix = [g \in Games |-> 1]
    /\ pollLimit = 0
    /\ wfOK = TRUE

SpecStore == InitStore /\ [][StoreNext]_vars


\* ------------------------------------------------ GameMonitor specification
\* A Game after from_api / enrichment: schedule fields, scores and one player
\* per team (Player.name, played, PlayerStats).
Player(nm, pl, p, r, a, st, b) ==
    [name |-> nm, played |-> pl, pts |-> p, reb |-> r, ast |-> a, stl |-> st, blk |-> b]
NoPlayers == <<Player("Jokic", FALSE, 0, 0, 0, 0, 0), Player("Doncic", FALSE, 0, 0, 0, 0, 0)>>
DSnap(st, txt, per, clk, h, a, pls) ==
    [kind |-> "game", status |-> st, status_text |-> txt, period |-> per, clock |-> clk,
     home |-> h, away |-> a, players |-> pls]

HalftimeTexts == {"", "Halftime", "Half", "2nd Half", "Q2 5:32", "End of Q1"}
Clocks == {"", "0:00", "0:0", " 0:00 ", "\n0:00", "0:00\r", "\f", "5:32", "00:00",
           "0:00", "0:00", "", "0:00", " 0:00", "0:00 ", " 0:0"}
HalftimeInputs == {DSnap(2, t, p, c, 50, 48, NoPlayers) :
                     t \in HalftimeTexts, p \in 1..3, c \in Clocks}
FinalTexts == {"", "End of Q4", "Final", "Final/OT", "Q4 0:00", "End of Q3"}
FinalInputs == {DSnap(st, t, 4, "0:00", sc[1], sc[2], NoPlayers) :
                  st \in 1..3, t \in FinalTexts, sc \in {<<100, 100>>, <<101, 99>>}}
CloseInputs == {DSnap(st, "", p, "1:00", sc[1], sc[2], NoPlayers) :
                  st \in 1..3, p \in 3..5,
                  sc \in {<<100, 95>>, <<95, 100>>, <<100, 94>>, <<94, 100>>, <<100, 100>>}}
HomePlayers == {Player("Jokic", pl, p, r, a, st, b) :
                  pl \in BOOLEAN, p \in {3, 8, 12, 40}, r \in {5, 7, 11}, a \in {3, 8, 10},
                  st \in {1, 9, 10}, b \in {0, 10}}
AwayPlayers == {Player("Doncic", TRUE, 12, 11, 3, 1, 0), Player("Doncic", TRUE, 12, 11, 8, 0, 0),
                Player("Doncic", TRUE, 12, 11, 5, 0, 0), Player("Doncic", TRUE, 45, 2, 2, 0, 0),
                Player("Doncic", FALSE, 45, 12, 11, 0, 0)}
PerfInputs == {DSnap(2, "Q3 5:00", 3, "5:00", 60, 60, <<ph, pa>>) :
                 ph \in HomePlayers, pa \in AwayPlayers}
QuarterTexts == {"", "Halftime", "End of Q1", "End of Q3", "End of OT", "End of 2OT", "End of Q4",
                 "Final"}
QuarterInputs == {DSnap(st, t, p, "", 100, 98, NoPlayers) :
                    st \in {2, 3}, t \in QuarterTexts, p \in {0, 2, 4, 5, 6}}
DetectorInputs == HalftimeInputs \cup FinalInputs \cup CloseInputs \cup PerfInputs \cup QuarterInputs

\* One call of each GameMonitor detector on the snapshot (detect_quarter_end
\* is evaluated here as a function; check_games never calls it).
Evaluate ==
    /\ res = NoResult
    /\ res' = [kind |-> "result", quarter |-> DetectQuarterEnd(snap),
               halftime |-> IsHalftime(snap), final |-> IsFinal(snap),
               close |-> CloseGameSignal(snap), alerts |-> DetectPerformanceAlertList(snap)]
    /\ UNCHANGED snap
    /\ UNCHANGED <<SvcVars, StoreVars, ApiVars, LoopVars>>

\* The next snapshot handed to the detectors.
NewSnapshot ==
    /\ res # NoResult
    /\ snap' \in DetectorInputs
    /\ res' = NoResult
    /\ UNCHANGED <<SvcVars, StoreVars, ApiVars, LoopVars>>

InitDetect ==
    /\ InitServiceWith(NoStateFile)
    /\ tl = [g \in Games |-> TimelineQ4]
    /\ ix = [g \in Games |-> 1]
    /\ pollLimit = 0
    /\ wfOK = FALSE
    /\ snap \in DetectorInputs
    /\ res = NoResult
    /\ LoopVarsInit("off")

DetectNext == Evaluate \/ NewSnapshot
SpecDetect == InitDetect /\ [][DetectNext]_vars

\* ------------------------------------ run_continuous / check_games specification
\* The main thread runs run_continuous; each cycle calls check_games and
\* waits on stop_event.  The SIGINT handler runs on the main thread between
\* two of its bytecodes.  Event.wait and Event.set hold the event's internal
\* Lock (Condition(Lock())) around their bodies; Condition.wait releases it
\* while blocked and re-acquires it before returning.

\* while not self.stop_event.is_set(): start a check_games cycle or leave.
LoopTop ==
    /\ loopPc = "top"
    /\ IF stopEv
       THEN /\ loopPc' = "exited"
            /\ UNCHANGED <<schedInProg, raised, hasActive, waitIv, loopCycles>>
       ELSE /\ loopCycles < MaxLoopCycles
            /\ loopPc' = "fetch"
            /\ loopCycles' = loopCycles + 1
            /\ hasActive' = FALSE
            /\ raised' = "no"
            /\ schedInProg' = {}
            /\ UNCHANGED waitIv
    /\ UNCHANGED <<stopEv, SvcVars, StoreVars, ApiVars, DetectorVars>>

\* get_todays_games as written: an empty list returns False at once; a
\* schedule with a game to keep raises TypeError in Game.from_schedule_api,
\* which leaves check_games (see Fetch) with has_active_games still False.
CycleFetch ==
    /\ loopPc = "fetch"
    /\ \E listed \in BOOLEAN, inP \in SUBSET CycleGameSet :
          /\ schedInProg' = IF listed THEN inP ELSE {}
          /\ hasActive' = FALSE
          /\ loopPc' = "wait_enter"
          /\ raised' = IF listed THEN "fetch" ELSE "no"
    /\ UNCHANGED <<stopEv, waitIv, loopCycles, SvcVars, StoreVars, ApiVars, DetectorVars>>

\* interval = poll_interval_active if has_active_games else poll_interval_idle
IntervalOf(active) == IF active THEN "active" ELSE "idle"

\* stop_event.wait(interval) enters `with self._cond`.
WaitEnter ==
    /\ loopPc = "wait_enter"
    /\ waitIv' = IntervalOf(hasActive)
    /\ loopPc' = "wait_locked"
    /\ UNCHANGED <<stopEv, schedInProg, raised, hasActive, loopCycles,
                   SvcVars, StoreVars, ApiVars, DetectorVars>>

\* Event.wait: a set flag returns at once; otherwise Condition.wait releases
\* the lock and blocks on its waiter lock for the interval.
EventWaitPcNoFlag(flag) == "wait_block"
EventWaitPc(flag) == IF flag THEN "wait_relocked" ELSE "wait_block"

WaitCheck ==
    /\ loopPc = "wait_locked"
    /\ loopPc' = EventWaitPc(stopEv)
    /\ UNCHANGED <<stopEv, schedInProg, raised, hasActive, waitIv, loopCycles,
                   SvcVars, StoreVars, ApiVars, DetectorVars>>

\* The interval elapses with no notify; the lock is re-acquired.
WaitTimeout ==
    /\ loopPc = "wait_block"
    /\ loopPc' = "wait_relocked"
    /\ UNCHANGED <<stopEv, schedInProg, raised, hasActive, waitIv, loopCycles,
                   SvcVars, StoreVars, ApiVars, DetectorVars>>

\* After notify_all released the waiter, Condition.wait re-acquires the lock.
WaitWake ==
    /\ loopPc = "wait_woken"
    /\ loopPc' = "wait_relocked"
    /\ UNCHANGED <<stopEv, schedInProg, raised, hasActive, waitIv, loopCycles,
                   SvcVars, StoreVars, ApiVars, DetectorVars>>

\* Event.wait leaves `with self._cond`; the loop re-tests the flag.
WaitExit ==
    /\ loopPc = "wait_relocked"
    /\ loopPc' = "top"
    /\ UNCHANGED <<stopEv, schedInProg, raised, hasActive, waitIv, loopCycles,
                   SvcVars, StoreVars, ApiVars, DetectorVars>>

\* signal_handler for SIGINT, on every signal: self.stop_event.set().
\* Event.set takes the event's Lock; when the interrupted main thread holds
\* it, the handler blocks for ever, whether or not the flag is already set.
\* A set while the main thread is blocked in Condition.wait notifies it.
SignalHandler ==
    /\ loopPc \notin {"off", "exited", "hung"}
    /\ IF loopPc \in {"wait_locked", "wait_relocked"}
       THEN /\ loopPc' = "hung"
            /\ UNCHANGED stopEv
       ELSE /\ stopEv' = TRUE
            /\ loopPc' = IF loopPc = "wait_block" THEN "wait_woken" ELSE loopPc
    /\ UNCHANGED <<schedInProg, raised, hasActive, waitIv, loopCycles,
                   SvcVars, StoreVars, ApiVars, DetectorVars>>

InitCycle ==
    /\ InitServiceWith(NoStateFile)
    /\ tl = [g \in Games |-> TimelineQ4]
    /\ ix = [g \in Games |-> 1]
    /\ pollLimit = 0
    /\ wfOK = FALSE
    /\ snap = NoSnap
    /\ res = NoResult
    /\ LoopVarsInit("top")

\* The program as written: no cycle gets past get_todays_games with a game.
MainThreadStep ==
    \/ LoopTop \/ CycleFetch
    \/ WaitEnter \/ WaitCheck \/ WaitTimeout \/ WaitWake \/ WaitExit

CycleNext ==
    \/ MainThreadStep
    \/ SignalHandler

SpecCycle == InitCycle /\ [][CycleNext]_vars

\* Threads are scheduled fairly; the user's signal is not forced.
SpecCycleLive ==
    /\ SpecCycle
    /\ WF_vars(MainThreadStep)


\* =================================================================== claims
\* A poll cycle has just run on the current date, with no restart since.
CycleJustEnded == pc = "idle" /\ cycDay = day /\ ~restartFlag

\* C3: when a game of the cycle's schedule shows a period end N
\* (detect_quarter_end) not yet in its posted_quarters, the cycle posts the
\* quarter-N milestone (the halftime post for N = 2, the final post of
\* period N).
QuarterEndCase(g) ==
    /\ DetectQuarterEnd(Obs(g)) # None
    /\ DetectQuarterEnd(Obs(g)) \notin Cur[g].posted_quarters
QuarterPosted(g, N, rs) ==
    \E r \in rs : r.g = g /\ ((N = 2 /\ r.k = "halftime") \/ (r.k = "final" /\ Obs(g).period = N))
C3_QuarterEndPosted ==
    CycleJustEnded =>
      \A i \in 1..Len(sched) :
        QuarterEndCase(sched[i]) => QuarterPosted(sched[i], DetectQuarterEnd(Obs(sched[i])), cyc)

\* C4: every game on the cycle's schedule with status other than NOT_STARTED
\* and no game_started_posted gets a start post in that cycle; on success the
\* handle is stored and the flag set.
StartPostedFor(g) ==
    /\ ~mem[g].game_started_posted => \E r \in cyc : r.g = g /\ r.k = "start"
    /\ \A r \in cyc : (r.g = g /\ r.k = "start" /\ r.ok) =>
          mem[g].game_started_posted /\ mem[g].thread_ts = polls
C4_StartOnFirstObservation ==
    CycleJustEnded =>
      \A i \in 1..Len(sched) :
        Obs(sched[i]).status # 1 => StartPostedFor(sched[i])

\* C12: loading a state file (a JSON object) whose date differs from today's
\* yields an empty store for today with end_of_night_posted = FALSE.
StaleObjectFile ==
    /\ disk.date # NoFile
    /\ disk.form \notin {"unreadable", "undecodable", "invalid_json", "not_object"}
    /\ (disk.form = "no_date" \/ disk.date # day)
\* A restart step: restartFlag set with no poll and no date change.
RestartStep == restartFlag' /\ polls' = polls /\ day' = day /\ Restart
C12_StaleFileDiscarded ==
    [][(StaleObjectFile /\ RestartStep)
         => (pc' = "idle" /\ mem' = FreshGames /\ eon' = FALSE /\ stDate' = day)]_vars
C12_Witness ==
    /\ restartFlag /\ stDate = day
    /\ disk.form = "object" /\ disk.date # NoFile /\ disk.date < day
    /\ disk.eon /\ \E g \in Games : disk.games[g]["game_started_posted"]
    /\ mem = FreshGames /\ ~eon

\* C13 (as stated): once the date has advanced past the store's date, every
\* store operation (get_game, save_game, is_end_of_night_posted,
\* mark_end_of_night_posted) acts on a store of the new date.
StoreOpStep ==
    \/ \E g \in Games : GetGame(g) \/ SaveGame(g)
    \/ IsEndOfNightPosted
    \/ MarkEndOfNightPosted
C13_StoreOpsOnNewDate ==
    [][StoreOpStep => stDate' = day]_vars
\* C13 (amended): only get_game checks the date: it acts on a store of today,
\* replacing a store of another date by an empty one (no record, flag unset).
\* save_game, is_end_of_night_posted and mark_end_of_night_posted act on the
\* store in use whatever its date, save_game storing the object it is given;
\* every write of the file carries the date of the store written.  A store
\* of a new date starts empty or as loaded from a file of that date.
C13_OnlyGetGameRollsOver ==
    /\ [][\A g \in Games :
            GetGame(g) =>
              /\ stDate' = day
              /\ stDate # day => (mem' = FreshGames /\ ~eon')
              /\ stDate = day => (mem' = mem /\ eon' = eon)]_vars
    /\ [][\A g \in Games :
            SaveGame(g) => (stDate' = stDate /\ eon' = eon /\ mem' = [mem EXCEPT ![g] = held[g].gs])]_vars
    /\ [][IsEndOfNightPosted => (stDate' = stDate /\ readEon'.val = eon /\ readEon'.date = stDate)]_vars
    /\ [][MarkEndOfNightPosted => (stDate' = stDate /\ mem' = mem /\ eon')]_vars
    /\ [][(disk' # disk /\ disk'.date # NoFile) => disk'.date = stDate']_vars
    /\ [][stDate' # stDate =>
            /\ stDate' = day
            /\ \/ mem' = FreshGames /\ ~eon'
               \/ Restart /\ disk.date = day]_vars
C13_Witness ==
    /\ \E g \in Games : lastSave[g].set /\ lastSave[g].date < lastSave[g].wall
    /\ stDate = day /\ disk.date < day

\* C14: constructing the StateManager never crashes: for every content of the
\* state file the load completes, with an empty store for today when the
\* content is unusable (malformed or ill-typed).
C14_LoadNeverCrashes ==
    /\ pc # "crashed"
    /\ ((restartFlag \/ polls = 0) /\ disk.form # "object")
         => (mem = FreshGames /\ ~eon /\ stDate = day)

\* C15 (as stated): after save_game(gs), get_game in the same process returns
\* gs, and after a restart on the same calendar day (as the save_game's return)
\* the loaded store contains gs (no reset() having been called since).
C15_SavedRecordVisible ==
    \A g \in Games :
      (lastSave[g].set /\ ~lastSave[g].reset /\ (lastSave[g].proc \/ lastSave[g].wall = day))
        => Cur[g] = lastSave[g].gs
\* C15 (amended): this holds while the date is still the date of the store the
\* record was saved into, and after a restart only when no _save had failed
\* since the last write of the file; a reset() ends it.  It holds until gs or
\* the stored record is changed again.
C15_SavedRecordVisibleSameDate ==
    \A g \in Games :
      (lastSave[g].set /\ lastSave[g].date = day /\ ~lastSave[g].lost) => Cur[g] = lastSave[g].gs
C15_Witness ==
    \E g \in Games :
      /\ lastSave[g].set /\ ~lastSave[g].proc /\ lastSave[g].date = day
      /\ lastSave[g].gs.game_started_posted /\ Cur[g] = lastSave[g].gs

\* Results of the detectors on the current snapshot are available.
Evaluated == res # NoResult

\* C16: is_halftime is true for period 2, clock "0:00", empty status_text and
\* false for period 2, clock "5:32" without "Half" in status_text; in general it
\* equals (period = 2 and clock.strip() in {"", "0:00", "0:0"}) or status_text
\* contains "Halftime" or "Half".
C16_HalftimeRule ==
    Evaluated =>
      /\ res.halftime = \/ snap.period = 2 /\ Strip(snap.clock) \in {"", "0:00", "0:0"}
                        \/ Contains(snap.status_text, "Halftime")
                        \/ Contains(snap.status_text, "Half")
      /\ (snap.period = 2 /\ snap.clock = "0:00" /\ snap.status_text = "") => res.halftime
      /\ (snap.period = 2 /\ snap.clock = "5:32" /\ ~Contains(snap.status_text, "Half"))
           => ~res.halftime
C16_Witness ==
    /\ Evaluated /\ res.halftime
    /\ snap.period = 2 /\ snap.clock = " 0:00 " /\ snap.status_text = ""

\* C17: is_final equals status = FINISHED, or status_text contains "Final", or
\* (status_text contains "End of Q4" and the scores differ); in particular
\* "End of Q4", 100-100, IN_PROGRESS is not final.
C17_FinalRule ==
    Evaluated =>
      /\ res.final = \/ snap.status = 3
                     \/ Contains(snap.status_text, "Final")
                     \/ Contains(snap.status_text, "End of Q4") /\ snap.home # snap.away
      /\ (snap.status_text = "End of Q4" /\ snap.home = 100 /\ snap.away = 100 /\ snap.status = 2)
           => ~res.final
C17_Witness ==
    /\ Evaluated /\ ~res.final
    /\ snap.status_text = "End of Q4" /\ snap.home = 100 /\ snap.away = 100 /\ snap.status = 2

\* Number of occurrences of x in the sequence sq.
Occurrences(sq, x) == Cardinality({i \in 1..Len(sq) : sq[i] = x})
\* The player of team i played with points 12, rebounds 11, assists 3,
\* steals 1, blocks 0.
Example1211(i) ==
    /\ snap.players[i].played
    /\ snap.players[i].pts = 12 /\ snap.players[i].reb = 11 /\ snap.players[i].ast = 3
    /\ snap.players[i].stl = 1 /\ snap.players[i].blk = 0

\* C18 (as stated): a played player with 12/11/3/1/0 yields exactly one
\* TRIPLE_DOUBLE signal for that player.
C18_ExampleTripleDouble ==
    Evaluated =>
      \A i \in 1..2 :
        Example1211(i) => Occurrences(res.alerts, <<snap.players[i].name, "triple_double">>) = 1
\* C18 (amended): only two categories reach 10 and none lies in [7,10), so the
\* player yields no signal at all.
C18_ExampleNoSignal ==
    Evaluated =>
      \A i \in 1..2 :
        Example1211(i) => \A j \in 1..Len(res.alerts) : res.alerts[j][1] # snap.players[i].name
C18_Witness == Evaluated /\ Example1211(1) /\ Example1211(2)

\* Categories of a player's stat line (points, rebounds, assists, steals,
\* blocks) that are >= 10, and that lie in [7,10).
StatLine(p) == <<p.pts, p.reb, p.ast, p.stl, p.blk>>
AtLeast10(p) == Cardinality({c \in 1..5 : StatLine(p)[c] >= 10})
From7To10(p) == Cardinality({c \in 1..5 : 7 <= StatLine(p)[c] /\ StatLine(p)[c] < 10})
Expect(b) == IF b THEN 1 ELSE 0

\* C19: for each played player of either team and no other player, exactly one
\* TRIPLE_DOUBLE iff at least 3 categories are >= 10; otherwise exactly one
\* TRIPLE_DOUBLE_WATCH iff exactly 2 are >= 10 and another is in [7,10); and
\* exactly one HIGH_SCORER iff points >= 40 (12/11/8 yields one watch, 12/11/5
\* yields nothing).
C19_AlertRule ==
    Evaluated =>
      /\ \A i \in 1..2 :
           LET p == snap.players[i] IN
           /\ Occurrences(res.alerts, <<p.name, "triple_double">>)
                = Expect(p.played /\ AtLeast10(p) >= 3)
           /\ Occurrences(res.alerts, <<p.name, "triple_double_watch">>)
                = Expect(p.played /\ AtLeast10(p) = 2 /\ From7To10(p) >= 1)
           /\ Occurrences(res.alerts, <<p.name, "high_scorer">>)
                = Expect(p.played /\ p.pts >= 40)
      /\ \A j \in 1..Len(res.alerts) :
           \E i \in 1..2 : snap.players[i].played /\ res.alerts[j][1] = snap.players[i].name
      /\ \A i \in 1..2 :
           LET p == snap.players[i]
               mine == {j \in 1..Len(res.alerts) : res.alerts[j][1] = p.name}
           IN /\ (p.played /\ <<p.pts, p.reb, p.ast>> = <<12, 11, 8>> /\ p.stl < 7 /\ p.blk < 7)
                   => (mine = {j \in mine : res.alerts[j][2] = "triple_double_watch"}
                       /\ Cardinality(mine) = 1)
              /\ (<<p.pts, p.reb, p.ast>> = <<12, 11, 5>> /\ p.stl < 7 /\ p.blk < 7)
                   => mine = {}
C19_Witness ==
    /\ Evaluated
    /\ <<"Jokic", "triple_double">> \in {res.alerts[j] : j \in DOMAIN res.alerts}
    /\ <<"Jokic", "high_scorer">> \in {res.alerts[j] : j \in DOMAIN res.alerts}
    /\ <<"Doncic", "triple_double_watch">> \in {res.alerts[j] : j \in DOMAIN res.alerts}

\* C20: detect_close_game returns a signal with margin |home - away|, period and
\* clock iff status = IN_PROGRESS, period >= 4 and |home - away| <= 5, and none
\* otherwise.
C20_CloseGameRule ==
    Evaluated =>
      IF snap.status = 2 /\ snap.period >= 4
         /\ snap.home - snap.away <= 5 /\ snap.away - snap.home <= 5
      THEN /\ res.close # NoSignal
           /\ res.close.point_diff = IF snap.home >= snap.away THEN snap.home - snap.away
                                     ELSE snap.away - snap.home
           /\ res.close.period = snap.period
           /\ res.close.clock = snap.clock
      ELSE res.close = NoSignal
C20_Witness ==
    /\ Evaluated /\ res.close # NoSignal /\ snap.period = 5 /\ snap.away > snap.home

\* C21: detect_quarter_end applies, in order, first match winning: text
\* contains "Halftime" or "Half" -> 2; "End of Q1" -> 1; "End of Q3" -> 3;
\* "End of OT" -> period; status FINISHED -> max(period, 4); otherwise none.
C21_QuarterEndRule ==
    Evaluated =>
      res.quarter =
        CASE Contains(snap.status_text, "Halftime") \/ Contains(snap.status_text, "Half") -> 2
          [] Contains(snap.status_text, "End of Q1") -> 1
          [] Contains(snap.status_text, "End of Q3") -> 3
          [] Contains(snap.status_text, "End of OT") -> snap.period
          [] snap.status = 3 -> IF snap.period >= 4 THEN snap.period ELSE 4
          [] OTHER -> None
C21_Witness ==
    /\ Evaluated /\ snap.status = 3 /\ snap.period < 4 /\ res.quarter = 4
    /\ snap.status_text = "Final"

\* C22: after a cycle whose schedule is the one game g, IN_PROGRESS, period 2,
\* clock "0:00", at most one HALFTIME event for g was emitted in the cycle and
\* g's state has halftime_posted (and quarter 2) recorded.
C22_HalftimeScenario ==
    CycleJustEnded =>
      \A g \in Games :
        (sched = <<g>> /\ Obs(g).status = 2 /\ Obs(g).period = 2 /\ Obs(g).clock = "0:00")
          => /\ Cardinality({r \in cyc : r.g = g /\ r.k = "halftime"}) <= 1
             /\ Cur[g].halftime_posted /\ 2 \in Cur[g].posted_quarters

\* C24: once stop_event is set, no new check_games cycle starts, the main
\* thread never again blocks in the wait, the cycle in progress runs on, and
\* the loop exits.
C24_StopEndsLoop ==
    /\ [][(loopPc = "top" /\ loopPc' = "fetch") => ~stopEv]_vars
    /\ [](stopEv => loopPc # "wait_block")
    /\ [][(stopEv /\ loopPc = "fetch") => loopPc' \notin {"top", "exited", "hung"}]_vars
    /\ (stopEv ~> loopPc = "exited")

\* C25: the wait after each cycle uses the active interval exactly when that
\* cycle's schedule had a game in progress.
WaitStarts == loopPc = "wait_enter" /\ loopPc' = "wait_locked"
C25_IntervalFollowsCycle ==
    [][WaitStarts => (waitIv' = "active" <=> schedInProg # {})]_vars

====
